---- MODULE Spec2Model ----
(***************************************************************************)
(* schema-tools: the allOf composition normalizer (process/merge.rs).      *)
(*                                                                         *)
(* A serde_json::Value is modelled as a record [t, n, kids]:               *)
(*   t    : "null" | "num" | "obj" | "arr"   (the variant)                 *)
(*   n    : the payload of a scalar (0 for the other variants)             *)
(*   kids : the entries, in the map's / vector's own order, each a record  *)
(*          [k |-> key, v |-> value]; an array element has k = "".         *)
(* The map is the insertion-ordered one: entry().or_insert() appends a new *)
(* key at the end and remove() is a swap-remove, which is what the order   *)
(* expected by test_should_leave_additional_properties shows.              *)
(***************************************************************************)
EXTENDS Integers, Sequences, FiniteSets, TLC

(* ------------------------------ bounds -------------------------------- *)

\* scalars are Null and the numbers 1..MaxNum
MaxNum == 2

\* an allOf array of the generated documents has at most MaxBranches branches
MaxBranches == 2

\* an array handed to merge_values has at most MaxLen elements
MaxLen == 2

(* ------------------------------ values -------------------------------- *)

Value(t, n, kids) == [t |-> t, n |-> n, kids |-> kids]

Null == Value("null", 0, <<>>)

Num(i) == Value("num", i, <<>>)

Entry(k, v) == [k |-> k, v |-> v]

Obj(kids) == Value("obj", 0, kids)

Arr(items) == Value("arr", 0, [i \in 1..Len(items) |-> Entry("", items[i])])

IsObject(v) == v.t = "obj"

IsArray(v) == v.t = "arr"

IsScalar(v) == v.t \notin {"obj", "arr"}

Keys(v) == {v.kids[i].k : i \in 1..Len(v.kids)}

\* position of key k among the entries, 0 when the map has no such key
KeyIndex(kids, k) ==
    IF \E i \in 1..Len(kids) : kids[i].k = k
    THEN CHOOSE i \in 1..Len(kids) : kids[i].k = k
    ELSE 0

ContainsKey(v, k) == IsObject(v) /\ KeyIndex(v.kids, k) # 0

\* map.get(k): the value under k, Null standing for None
Get(v, k) ==
    IF IsObject(v) /\ KeyIndex(v.kids, k) # 0 THEN v.kids[KeyIndex(v.kids, k)].v ELSE Null

\* a lookup that takes the map's first entry whatever its key
FirstEntryIndex(kids) == IF Len(kids) > 0 THEN 1 ELSE 0

\* the entry named "allOf": contains_key("allOf"), get_mut("allOf"), remove("allOf")
AllOfIndex(kids) == KeyIndex(kids, "allOf")

ContainsAllOf(v) == IsObject(v) /\ AllOfIndex(v.kids) # 0

\* the allOf value of a node, Null when it has none
AllOfValue(v) == IF ContainsAllOf(v) THEN v.kids[AllOfIndex(v.kids)].v ELSE Null

\* the removal left out: the map keeps all its entries
KeepEntries(kids, i) == kids

\* Map::remove at position i: the last entry takes the removed entry's place
SwapRemove(kids, i) ==
    IF i = 0 \/ i > Len(kids)
    THEN kids
    ELSE [j \in 1..(Len(kids) - 1) |-> IF j = i THEN kids[Len(kids)] ELSE kids[j]]

(* --------------------------- merge_values ----------------------------- *)

RECURSIVE MergeValues(_, _)
RECURSIVE MergeObjects(_, _)

\* the slot is overwritten with the source's value instead of merged with it
OverwriteEntry(akids, e) ==
    LET i == KeyIndex(akids, e.k)
    IN  IF i = 0
        THEN Append(akids, Entry(e.k, e.v))
        ELSE [akids EXCEPT ![i] = Entry(e.k, e.v)]

\* a.entry(k).or_insert(Value::Null), then merge_values(that slot, v)
MergeEntry(akids, e) ==
    LET i == KeyIndex(akids, e.k)
    IN  IF i = 0
        THEN Append(akids, Entry(e.k, MergeValues(Null, e.v)))
        ELSE [akids EXCEPT ![i] = Entry(e.k, MergeValues(akids[i].v, e.v))]

\* the source's entries take the place of the target's
TakeSourceEntries(akids, bkids) == bkids

\* for (k, v) in b { merge_values(a.entry(k).or_insert(Null), v) }
MergeObjects(akids, bkids) ==
    IF bkids = <<>>
    THEN akids
    ELSE MergeObjects(MergeEntry(akids, Head(bkids)), Tail(bkids))

\* only the elements the target does not hold yet are pushed
RECURSIVE PushIfAbsent(_, _)
PushIfAbsent(akids, bkids) ==
    IF bkids = <<>>
    THEN akids
    ELSE PushIfAbsent(
            IF \E i \in 1..Len(akids) : akids[i] = Head(bkids)
            THEN akids
            ELSE Append(akids, Head(bkids)),
            Tail(bkids))

\* for v in b { a.push(v) }
MergeArrays(akids, bkids) == akids \o bkids

\* a Null source leaves the target alone
ReplaceUnlessNull(a, b) == IF b.t = "null" THEN a ELSE b

\* (a, b) => *a = b
Replace(a, b) == b

MergeValues(a, b) ==
    IF IsObject(a) /\ IsObject(b)
    THEN Obj(MergeObjects(a.kids, b.kids))
    ELSE IF IsArray(a) /\ IsArray(b)
         THEN Value("arr", 0, MergeArrays(a.kids, b.kids))
         ELSE Replace(a, b)

(* --------------------------- process_merge ---------------------------- *)

RECURSIVE AccumulateFrom(_, _, _)

\* for n in 1..size { merge_values(&mut first, schemas[n].clone()) }
\* (positions are 1-based here: n runs over 2..Len(schemas))
AccumulateFrom(first, schemas, n) ==
    IF n > Len(schemas)
    THEN first
    ELSE AccumulateFrom(MergeValues(first, schemas[n].v), schemas, n + 1)

\* the branches folded from the last one down to the first
RECURSIVE AccumulateDownFrom(_, _, _)
AccumulateDownFrom(first, schemas, n) ==
    IF n < 1
    THEN first
    ELSE AccumulateDownFrom(MergeValues(first, schemas[n].v), schemas, n - 1)

AccumulateBackwards(schemas) ==
    IF schemas = <<>>
    THEN Null
    ELSE AccumulateDownFrom(schemas[Len(schemas)].v, schemas, Len(schemas) - 1)

\* let mut first = schemas[0].clone(); then the loop
Accumulate(schemas) ==
    IF schemas = <<>> THEN Null ELSE AccumulateFrom(schemas[1].v, schemas, 2)

\* the node merged into the accumulator instead of the accumulator into the node
MergeRootIntoAccumulator(node, first) ==
    MergeValues(first, Obj(SwapRemove(node.kids, AllOfIndex(node.kids))))

\* the accumulator merged into the node with its allOf still in place
MergeLeavingAllOf(node, first) == MergeValues(node, first)

\* root.remove("allOf"); merge_values(root, first)
MergeIntoRoot(node, first) ==
    MergeValues(Obj(SwapRemove(node.kids, AllOfIndex(node.kids))), first)

\* which arm of process_merge the node takes
MergeKind(node) ==
    IF IsArray(AllOfValue(node))
    THEN IF Len(AllOfValue(node).kids) = 0 THEN "empty" ELSE "merged"
    ELSE "notarray"

\* the malformed allOf entry is dropped from the node
WarnAndStrip(node) == Obj(SwapRemove(node.kids, AllOfIndex(node.kids)))

\* return log::warn!(..) and the `_ =>` arm: the node stays as it is
WarnAndLeave(node) == node

(* -------------------- paths into the document tree -------------------- *)

\* one SchemaScope segment: scope.any(property) or scope.index(index)
Seg(k, i) == [k |-> k, i |-> i]

\* position of the child a segment names: by key in a map, by index in a vector
ChildPos(v, seg) == IF IsObject(v) THEN KeyIndex(v.kids, seg.k) ELSE seg.i

HasChild(v, seg) ==
    /\ ~IsScalar(v)
    /\ ChildPos(v, seg) \in 1..Len(v.kids)
    /\ (IsArray(v) => seg.k = "")

RECURSIVE NodeExists(_, _)
NodeExists(v, path) ==
    \/ path = <<>>
    \/ /\ HasChild(v, Head(path))
       /\ NodeExists(v.kids[ChildPos(v, Head(path))].v, Tail(path))

\* the &mut Value a chain of recursive calls has reached
RECURSIVE GetAt(_, _)
GetAt(v, path) ==
    IF path = <<>>
    THEN v
    ELSE GetAt(v.kids[ChildPos(v, Head(path))].v, Tail(path))

\* the tree after an assignment through that reference
RECURSIVE SetAt(_, _, _)
SetAt(v, path, new) ==
    IF path = <<>>
    THEN new
    ELSE LET i == ChildPos(v, Head(path))
         IN  [v EXCEPT !.kids[i].v = SetAt(v.kids[i].v, Tail(path), new)]

Front(s) == SubSeq(s, 1, Len(s) - 1)

(* ------------------------ generated documents ------------------------- *)

SeqsUpTo(S, n) == UNION {[1..m -> S] : m \in 1..n}

Scalars == {Null} \cup {Num(i) : i \in 1..MaxNum}

Obj1(k, v) == Obj(<<Entry(k, v)>>)

Obj2(k1, v1, k2, v2) == Obj(<<Entry(k1, v1), Entry(k2, v2)>>)

AllOf(branches) == Entry("allOf", Arr(branches))

\* the shapes an allOf branch takes: scalars, objects with scalar, array and
\* object members, an array, and nodes whose own allOf is empty or no array
Branches ==
    Scalars
    \cup {Obj1("x", s) : s \in Scalars}
    \cup {Obj1("y", Num(1))}
    \cup {Obj1("x", Arr(<<Num(i)>>)) : i \in 1..MaxNum}
    \cup {Obj1("x", Obj1("y", Num(1)))}
    \cup {Arr(<<Num(1)>>)}
    \cup {Obj1("allOf", Arr(<<>>)), Obj1("allOf", Num(1))}

SmallBranches ==
    {Num(1), Obj1("x", Num(1)), Obj1("y", Num(2)), Obj1("allOf", Arr(<<>>))}

\* the properties declared alongside allOf, after it
Siblings ==
    {<<>>}
    \cup {<<Entry("x", s)>> : s \in Scalars}
    \cup {<<Entry("y", Num(1)), Entry("x", Num(2))>>}
    \cup {<<Entry("x", Arr(<<Num(2)>>))>>}
    \cup {<<Entry("x", Obj1("x", Num(2)))>>}

\* a node with one allOf over plain branches
SingleDocs ==
    {Obj(<<AllOf(bs)>> \o sib) : bs \in SeqsUpTo(Branches, MaxBranches), sib \in {<<>>}}
    \cup {Obj(<<AllOf(bs)>> \o sib) :
            bs \in SeqsUpTo(SmallBranches \cup {Obj1("x", Arr(<<Num(1)>>))}, MaxBranches),
            sib \in Siblings}
    \cup {Obj(<<Entry("x", Num(2)), AllOf(bs)>>) : bs \in SeqsUpTo(SmallBranches, 1)}

InnerNodes ==
    {Obj(<<AllOf(bs)>>) : bs \in SeqsUpTo(SmallBranches, MaxBranches)}
    \cup {Obj(<<AllOf(<<b>>), Entry("x", Num(2))>>) : b \in SmallBranches}

OneBranchNodes ==
    {Obj(<<AllOf(<<b>>)>>) : b \in SmallBranches}
    \cup {Obj(<<AllOf(<<Obj1("x", Num(1)), Obj1("y", Num(2))>>), Entry("x", Num(2))>>)}

\* an allOf whose branches hold an allOf of their own
NestedDocs ==
    {Obj(<<AllOf(<<n, b>>)>>) : n \in InnerNodes, b \in SmallBranches}
    \cup {Obj(<<AllOf(<<b, n>>)>>) : n \in InnerNodes, b \in SmallBranches}
    \cup {Obj(<<AllOf(<<Obj1("x", n)>>), Entry("x", Obj1("allOf", Arr(<<>>)))>>) :
            n \in InnerNodes}

\* an allOf below plain maps and vectors
WrappedDocs ==
    {Obj2("a", n, "b", Obj1("x", Num(1))) : n \in InnerNodes}
    \cup {Arr(<<n, Num(1)>>) : n \in InnerNodes}

\* allOf that is empty or not an array, with nodes still to normalize around it
MalformedDocs ==
    {Obj(<<Entry("allOf", v)>> \o sib) :
        v \in {Arr(<<>>), Num(1), Null, Obj1("x", Num(1))}, sib \in Siblings}
    \cup {Obj2("allOf", Obj1("x", n), "y", n) : n \in OneBranchNodes}
    \cup {Obj2("a", Obj1("allOf", Arr(<<>>)), "b", n) : n \in OneBranchNodes}

\* documents without any allOf key
FlatDocs ==
    Scalars
    \cup {Obj1("x", s) : s \in Scalars}
    \cup {Arr(<<s, Obj1("x", s)>>) : s \in Scalars}
    \cup {Obj2("x", Arr(<<Obj1("y", s), Num(1)>>), "y", s) : s \in Scalars}
    \cup {Obj2("y", Obj1("x", Arr(<<s>>)), "x", Arr(<<>>)) : s \in Scalars}
    \cup {Obj(<<>>), Arr(<<>>)}

Docs == SingleDocs \cup NestedDocs \cup WrappedDocs \cup MalformedDocs \cup FlatDocs

(* ------------------------------- state -------------------------------- *)

VARIABLES
    input,      \* the document as handed to Merger::process
    root,       \* schema.get_body_mut(): the document being normalized in place
    scope,      \* SchemaScope: the segments pushed on the way to the current node
    stack,      \* the active process_node calls, innermost first: for each, the
                \* number of children its loop has already passed
    pc,         \* "ready" before process, "run" inside it, "done" once it returned
    last,       \* the process_node call that returned last: its arm, its place,
                \* the node as the call found it after the descent, and as it left it
    returned,   \* the places whose process_node call has returned
    resolved,   \* the places where process_merge merged an accumulator into the node
    target,     \* merge_values: a, before the call
    source,     \* merge_values: b
    result,     \* merge_values: a, after the call
    called,     \* whether merge_values has been applied to (target, source)
    passes,     \* the documents left by the completed passes that were followed
                \* by another call of process on the same schema
    walk,       \* each_node / each_node_mut: the arguments of the call and,
                \* once it is over, what it returned and what it left behind
    extr,       \* ArgumentsExtractor: the characters not consumed yet and what
                \* the calls of next have returned so far
    fill        \* fill_parameters: the arguments of the call and its result

vars == <<input, root, scope, stack, pc, last, returned, resolved,
          target, source, result, called, passes, walk, extr, fill>>

mergerVars == <<input, root, scope, stack, pc, last, returned, resolved>>

mergeVars == <<target, source, result, called>>

toolVars == <<walk, extr, fill>>

\* no walker call, no extractor and no fill_parameters call exist
ToolsIdle ==
    /\ walk = [at |-> "idle"]
    /\ extr = [at |-> "idle"]
    /\ fill = [at |-> "idle"]

NoCall == [kind |-> "none", path |-> <<>>, before |-> Null, acc |-> Null, after |-> Null]

Init ==
    /\ input \in Docs
    /\ root = input
    /\ scope = <<>>
    /\ stack = <<>>
    /\ pc = "ready"
    /\ last = NoCall
    /\ returned = {}
    /\ resolved = {}
    /\ target = Null
    /\ source = Null
    /\ result = Null
    /\ called = FALSE
    /\ passes = <<>>
    /\ ToolsIdle

(* ---------------------- MergerOptions::process ------------------------ *)

\* the node the innermost process_node call works on
Node == GetAt(root, scope)

\* allOf is processed without going deeper first
ChildrenSkipped(node, cursor) == TRUE

\* the loop over the node's children has passed all of them
ChildrenDone(node, cursor) == cursor >= Len(node.kids)

\* process(): process_node(&mut root, .., &mut SchemaScope::default())
Process ==
    /\ pc = "ready"
    /\ pc' = "run"
    /\ stack' = <<0>>
    /\ scope' = <<>>
    /\ UNCHANGED <<input, root, last, returned, resolved, mergeVars, passes, toolVars>>

\* Value::Object: scope.any(property); process_node(value, ..)
DescendObject ==
    /\ pc = "run"
    /\ IsObject(Node)
    /\ ~ChildrenDone(Node, Head(stack))
    /\ scope' = Append(scope, Seg(Node.kids[Head(stack) + 1].k, 0))
    /\ stack' = <<0, Head(stack) + 1>> \o Tail(stack)
    /\ UNCHANGED <<input, root, pc, last, returned, resolved, mergeVars, passes, toolVars>>

\* Value::Array: scope.index(index); process_node(&mut x, ..)
DescendArray ==
    /\ pc = "run"
    /\ IsArray(Node)
    /\ ~ChildrenDone(Node, Head(stack))
    /\ scope' = Append(scope, Seg("", Head(stack) + 1))
    /\ stack' = <<0, Head(stack) + 1>> \o Tail(stack)
    /\ UNCHANGED <<input, root, pc, last, returned, resolved, mergeVars, passes, toolVars>>

\* the call ends but stays the innermost active call, its segment on the scope
ReturnKeepingFrame(kind, acc, after) ==
    /\ last' = [kind |-> kind, path |-> scope, before |-> Node, acc |-> acc, after |-> after]
    /\ root' = SetAt(root, scope, after)
    /\ returned' = returned \cup {scope}
    /\ UNCHANGED <<stack, scope, pc>>
    /\ UNCHANGED <<input, mergeVars, passes, toolVars>>

\* the call returns to its caller, which pops the segment it pushed
Return(kind, acc, after) ==
    /\ last' = [kind |-> kind, path |-> scope, before |-> Node, acc |-> acc, after |-> after]
    /\ root' = SetAt(root, scope, after)
    /\ returned' = returned \cup {scope}
    /\ stack' = Tail(stack)
    /\ scope' = IF scope = <<>> THEN scope ELSE Front(scope)
    /\ pc' = IF Tail(stack) = <<>> THEN "done" ELSE "run"
    /\ UNCHANGED <<input, mergeVars, passes, toolVars>>

\* _ => {}
ReturnScalar ==
    /\ pc = "run"
    /\ IsScalar(Node)
    /\ Return("scalar", Null, Node)
    /\ UNCHANGED resolved

\* Value::Array, after the loop
ReturnArray ==
    /\ pc = "run"
    /\ IsArray(Node)
    /\ ChildrenDone(Node, Head(stack))
    /\ Return("array", Null, Node)
    /\ UNCHANGED resolved

\* Value::Object, after the loop, !map.contains_key("allOf")
ReturnObject ==
    /\ pc = "run"
    /\ IsObject(Node)
    /\ ChildrenDone(Node, Head(stack))
    /\ ~ContainsAllOf(Node)
    /\ Return("object", Null, Node)
    /\ UNCHANGED resolved

\* process_merge, Value::Array(schemas) with size > 0
ResolveAllOf ==
    /\ pc = "run"
    /\ IsObject(Node)
    /\ ChildrenDone(Node, Head(stack))
    /\ ContainsAllOf(Node)
    /\ MergeKind(Node) = "merged"
    /\ LET first == Accumulate(AllOfValue(Node).kids)
       IN  Return("merged", first, MergeIntoRoot(Node, first))
    /\ resolved' = resolved \cup {scope}

\* process_merge, size == 0: warn and return
WarnEmpty ==
    /\ pc = "run"
    /\ IsObject(Node)
    /\ ChildrenDone(Node, Head(stack))
    /\ ContainsAllOf(Node)
    /\ MergeKind(Node) = "empty"
    /\ Return("empty", Null, WarnAndLeave(Node))
    /\ UNCHANGED resolved

\* process_merge, _ => warn
WarnNotArray ==
    /\ pc = "run"
    /\ IsObject(Node)
    /\ ChildrenDone(Node, Head(stack))
    /\ ContainsAllOf(Node)
    /\ MergeKind(Node) = "notarray"
    /\ Return("notarray", Null, WarnAndLeave(Node))
    /\ UNCHANGED resolved

Next ==
    \/ Process
    \/ DescendObject
    \/ DescendArray
    \/ ReturnScalar
    \/ ReturnArray
    \/ ReturnObject
    \/ ResolveAllOf
    \/ WarnEmpty
    \/ WarnNotArray

Spec == Init /\ [][Next]_vars

(* ---------------- the pass over malformed allOf nodes ------------------ *)

MalformedInit ==
    /\ Init
    /\ input \in MalformedDocs

\* process is synchronous, single-threaded code: once called it keeps running
\* until it returns, so every enabled step is eventually taken
MalformedFairSpec == MalformedInit /\ [][Next]_vars /\ WF_vars(Next)

(* ------------------------ merge_values alone --------------------------- *)

MergeLeaves ==
    Scalars \cup {Obj1("a", Num(1)), Obj1("b", Num(2)), Arr(<<Num(1)>>)}

ObjectInputs ==
    {Obj(<<>>)}
    \cup {Obj1(k, v) : k \in {"a", "b"}, v \in MergeLeaves}
    \cup {Obj2("a", v, "b", w) : v \in MergeLeaves, w \in MergeLeaves}
    \cup {Obj2("b", v, "a", w) : v \in MergeLeaves, w \in MergeLeaves}

ArrayInputs ==
    {Arr(<<>>)}
    \cup {Arr(items) : items \in SeqsUpTo(Scalars \cup {Obj1("a", Num(1))}, MaxLen)}
    \cup {Arr(<<Num(1), Num(2)>>), Arr(<<Num(2), Num(3)>>)}

MergeInputs == Scalars \cup ObjectInputs \cup ArrayInputs

MergeInit ==
    /\ target \in MergeInputs
    /\ source \in MergeInputs
    /\ result = target
    /\ called = FALSE
    /\ input = Null
    /\ root = Null
    /\ scope = <<>>
    /\ stack = <<>>
    /\ pc = "idle"
    /\ last = NoCall
    /\ returned = {}
    /\ resolved = {}
    /\ passes = <<>>
    /\ ToolsIdle

\* merge_values(&mut a, b) taking the (Object, Object) arm
MergeObjectWithObject ==
    /\ ~called
    /\ IsObject(target) /\ IsObject(source)
    /\ result' = MergeValues(target, source)
    /\ called' = TRUE
    /\ UNCHANGED <<target, source, mergerVars, passes, toolVars>>

\* merge_values(&mut a, b) taking the (Array, Array) arm
MergeArrayWithArray ==
    /\ ~called
    /\ IsArray(target) /\ IsArray(source)
    /\ result' = MergeValues(target, source)
    /\ called' = TRUE
    /\ UNCHANGED <<target, source, mergerVars, passes, toolVars>>

\* merge_values(&mut a, b) taking the (a, b) => *a = b arm
MergeOther ==
    /\ ~called
    /\ ~(IsObject(target) /\ IsObject(source))
    /\ ~(IsArray(target) /\ IsArray(source))
    /\ result' = MergeValues(target, source)
    /\ called' = TRUE
    /\ UNCHANGED <<target, source, mergerVars, passes, toolVars>>

MergeNext ==
    \/ MergeObjectWithObject
    \/ MergeArrayWithArray
    \/ MergeOther

MergeSpec == MergeInit /\ [][MergeNext]_vars

(* ----------------- what the claims speak about ------------------------ *)

\* the branches (entries of the allOf array) the last process_merge call read
LastBranches == AllOfValue(last.before).kids

\* the keys declared alongside allOf on the node the last call worked on
LastSiblings == Keys(last.before) \ {"allOf"}

NonEmptyArray(v) == IsArray(v) /\ Len(v.kids) > 0

\* some node of v still holds an allOf that composition resolution would resolve
RECURSIVE HasResolvable(_)
HasResolvable(v) ==
    \/ ContainsKey(v, "allOf") /\ NonEmptyArray(Get(v, "allOf"))
    \/ \E i \in 1..Len(v.kids) : HasResolvable(v.kids[i].v)

\* some node of v has an allOf key
RECURSIVE HasAllOfKey(_)
HasAllOfKey(v) ==
    \/ ContainsKey(v, "allOf")
    \/ \E i \in 1..Len(v.kids) : HasAllOfKey(v.kids[i].v)

\* the left-to-right fold, written from the last branch backwards
RECURSIVE LeftFold(_)
LeftFold(bs) ==
    IF Len(bs) = 1
    THEN bs[1].v
    ELSE MergeValues(LeftFold(Front(bs)), bs[Len(bs)].v)

\* the last branch that declares key k (0 when none does)
LastDeclaring(bs, k) ==
    IF \E i \in 1..Len(bs) : ContainsKey(bs[i].v, k)
    THEN CHOOSE i \in 1..Len(bs) :
            /\ ContainsKey(bs[i].v, k)
            /\ \A j \in (i + 1)..Len(bs) : ~ContainsKey(bs[j].v, k)
    ELSE 0

\* the places of the resolved nodes that lie below no other resolved node
OutermostResolved ==
    {p \in resolved :
        \A q \in resolved : ~(Len(q) < Len(p) /\ SubSeq(p, 1, Len(q)) = q)}

(* ------------------------------- C1 ----------------------------------- *)

SiblingsKept ==
    \A k \in LastSiblings :
        (\A i \in 1..Len(LastBranches) : ~ContainsKey(LastBranches[i].v, k))
        => /\ ContainsKey(last.after, k)
           /\ Get(last.after, k) = Get(last.before, k)

\* C3 as stated: at every node with a non-empty allOf array, each sibling key
\* that no branch declares is still present, with its value unchanged.
C3_Original == last.kind = "merged" => SiblingsKept

\* C3 as amended: the same, at every node whose accumulator is an Object (an
\* accumulator that is an Array, a scalar or Null replaces the whole node).
C3_SiblingsKeptUnderObjectAccumulator ==
    (last.kind = "merged" /\ IsObject(last.acc)) => SiblingsKept

\* a node with two siblings that no branch declares has been resolved
C3_Witness ==
    /\ last.kind = "merged"
    /\ IsObject(last.acc)
    /\ last.before = Obj(<<AllOf(<<Obj1("allOf", Arr(<<>>))>>),
                           Entry("y", Num(1)), Entry("x", Num(2))>>)
    /\ Get(last.after, "x") = Num(2)
    /\ Get(last.after, "y") = Num(1)

(* ------------------------------- C4 ----------------------------------- *)

\* C4 as stated: a node at which composition resolution was performed has no
\* allOf key, neither when process_merge leaves it nor (for the resolved nodes
\* that no enclosing resolution has absorbed) when process has returned.
C4_Original ==
    /\ last.kind = "merged" => ~ContainsKey(last.after, "allOf")
    /\ pc = "done" =>
          \A p \in OutermostResolved : ~ContainsKey(GetAt(root, p), "allOf")

\* C4 as amended: such a node has an allOf key only when the accumulator was an
\* Object with an allOf key of its own; the node then holds the accumulator's
\* allOf value, and that value is never a non-empty array.
C4_NoResolvableAllOfLeft ==
    /\ (last.kind = "merged" /\ ContainsKey(last.after, "allOf")) =>
          /\ ContainsKey(last.acc, "allOf")
          /\ Get(last.after, "allOf") = Get(last.acc, "allOf")
          /\ ~NonEmptyArray(Get(last.after, "allOf"))
    /\ pc = "done" =>
          \A p \in OutermostResolved :
              ~NonEmptyArray(Get(GetAt(root, p), "allOf"))

\* process has returned from a document whose root allOf held a nested allOf,
\* and the root has no allOf key
C4_Witness ==
    /\ pc = "done"
    /\ <<>> \in resolved
    /\ Cardinality(resolved) >= 2
    /\ IsObject(root)
    /\ ~ContainsKey(root, "allOf")

(* ------------------------------- C5 ----------------------------------- *)

\* C5: a document without any allOf key is the same document at every point
\* of the pass and after it (same keys, same order, same values).
C5_AllOfFreeUnchanged == ~HasAllOfKey(input) => root = input

\* process has returned from an allOf-free document with maps and vectors
C5_Witness ==
    /\ pc = "done"
    /\ ~HasAllOfKey(input)
    /\ NonEmptyArray(Get(input, "x"))
    /\ root = input

(* ------------------------------- C6 ----------------------------------- *)

\* C6: when a process_node call returns (and so when composition resolution
\* runs on a node), the call of every child of the node has returned, and no
\* node below it still holds an allOf that resolution would resolve: the
\* branches merged are in their resolved form.
C6_ChildrenBeforeParent ==
    last.kind # "none" =>
        /\ \A i \in 1..Len(last.before.kids) :
              Append(last.path,
                     IF IsObject(last.before)
                     THEN Seg(last.before.kids[i].k, 0)
                     ELSE Seg("", i)) \in returned
        /\ \A i \in 1..Len(last.before.kids) : ~HasResolvable(last.before.kids[i].v)

\* the root's allOf held a branch with an allOf of its own, and the root was
\* resolved over the resolved form of that branch
C6_Witness ==
    /\ last.kind = "merged"
    /\ last.path = <<>>
    /\ \E i \in 1..Len(AllOfValue(input).kids) :
          /\ HasResolvable(AllOfValue(input).kids[i].v)
          /\ ~HasResolvable(LastBranches[i].v)
          /\ LastBranches[i].v # AllOfValue(input).kids[i].v

(* ------------------------------- C7 ----------------------------------- *)

\* the node keeps its allOf entry and every other entry as the descent left it
WarnedNodeUnchanged ==
    last.kind \in {"empty", "notarray"} =>
        /\ last.after = last.before
        /\ ContainsKey(last.after, "allOf")
        /\ last.kind = "empty" <=> Get(last.before, "allOf") = Arr(<<>>)
        /\ GetAt(root, last.path) = last.before

\* C7: an allOf that is an empty array or no array changes nothing at its node,
\* and the pass goes on: it returns, with nothing left to resolve anywhere.
C7_MalformedAllOfIsInert ==
    /\ []WarnedNodeUnchanged
    /\ [](pc = "done" => ~HasResolvable(root))
    /\ [](last.kind \in {"empty", "notarray"} => <>(pc = "done"))

\* a warning was given for a node below the root, and the pass then resolved
\* another node and returned
C7_Witness ==
    /\ pc = "done"
    /\ Get(input, "a") = Obj1("allOf", Arr(<<>>))
    /\ Get(root, "a") = Obj1("allOf", Arr(<<>>))
    /\ HasResolvable(Get(input, "b"))
    /\ <<Seg("b", 0)>> \in resolved

(* ------------------------------- C8 ----------------------------------- *)

\* C8: merge_values on two Objects gives the key-wise union, each key once:
\* a key only in target keeps target's value, a key only in source gets
\* source's value, a key in both holds the merge of target's value with
\* source's (which is source's value as soon as one of the two is a scalar);
\* {a:1} with {b:2} is {a:1,b:2} and {a:1} with {a:2} is {a:2}.
C8_ObjectUnion ==
    (called /\ IsObject(target) /\ IsObject(source)) =>
        /\ IsObject(result)
        /\ Keys(result) = Keys(target) \cup Keys(source)
        /\ Len(result.kids) = Cardinality(Keys(result))
        /\ \A k \in Keys(target) \ Keys(source) : Get(result, k) = Get(target, k)
        /\ \A k \in Keys(source) \ Keys(target) : Get(result, k) = Get(source, k)
        /\ \A k \in Keys(target) \cap Keys(source) :
              /\ Get(result, k) = MergeValues(Get(target, k), Get(source, k))
              /\ (IsScalar(Get(target, k)) \/ IsScalar(Get(source, k)))
                    => Get(result, k) = Get(source, k)
        /\ (target = Obj1("a", Num(1)) /\ source = Obj1("b", Num(2)))
              => result = Obj2("a", Num(1), "b", Num(2))
        /\ (target = Obj1("a", Num(1)) /\ source = Obj1("a", Num(2)))
              => result = Obj1("a", Num(2))

\* two Objects sharing a key with Object values on both sides, and each with a
\* key of its own, have been merged
C8_Witness ==
    /\ called
    /\ target = Obj2("a", Obj1("a", Num(1)), "b", Num(1))
    /\ source = Obj1("a", Obj1("b", Num(2)))
    /\ result = Obj2("a", Obj2("a", Num(1), "b", Num(2)), "b", Num(1))

(* ------------------------------- C9 ----------------------------------- *)

\* C9: merge_values on two Arrays gives target's elements followed by source's
\* elements, each in its order, none removed or merged; [1,2] with [2,3] is
\* [1,2,2,3].
C9_ArrayConcatenation ==
    (called /\ IsArray(target) /\ IsArray(source)) =>
        /\ IsArray(result)
        /\ Len(result.kids) = Len(target.kids) + Len(source.kids)
        /\ \A i \in 1..Len(target.kids) : result.kids[i] = target.kids[i]
        /\ \A i \in 1..Len(source.kids) :
              result.kids[Len(target.kids) + i] = source.kids[i]
        /\ (target = Arr(<<Num(1), Num(2)>>) /\ source = Arr(<<Num(2), Num(3)>>))
              => result = Arr(<<Num(1), Num(2), Num(2), Num(3)>>)

\* [1,2] and [2,3] have been merged to [1,2,2,3]
C9_Witness ==
    /\ called
    /\ target = Arr(<<Num(1), Num(2)>>)
    /\ source = Arr(<<Num(2), Num(3)>>)
    /\ result = Arr(<<Num(1), Num(2), Num(2), Num(3)>>)

(* ------------------------------- C10 ---------------------------------- *)

\* C10: merge_values applies to every pair of values (a call is possible as
\* long as none was made), and for a pair that is neither Object with Object
\* nor Array with Array the target after the call is exactly the source.
C10_OtherwiseSourceReplaces ==
    /\ ~called => ENABLED MergeNext
    /\ (/\ called
        /\ ~(IsObject(target) /\ IsObject(source))
        /\ ~(IsArray(target) /\ IsArray(source)))
       => result = source

\* an Object target has been replaced by a Null source
C10_Witness ==
    /\ called
    /\ target = Obj1("a", Num(1))
    /\ source = Null
    /\ result = Null

(* ------------------- tools: strings as characters ---------------------- *)

\* a &str is the sequence of its characters; Cat gives back the String
RECURSIVE Cat(_)
Cat(chars) == IF chars = <<>> THEN "" ELSE Head(chars) \o Cat(Tail(chars))

\* str::trim_matches(c): the leading and the trailing runs of c are dropped
RECURSIVE TrimStart(_, _)
TrimStart(chars, c) ==
    IF chars # <<>> /\ Head(chars) = c THEN TrimStart(Tail(chars), c) ELSE chars

RECURSIVE TrimEnd(_, _)
TrimEnd(chars, c) ==
    IF chars # <<>> /\ chars[Len(chars)] = c THEN TrimEnd(Front(chars), c) ELSE chars

TrimMatches(chars, c) == TrimEnd(TrimStart(chars, c), c)

\* the place of the first c in chars, 0 when there is none
FirstIndexOf(chars, c) ==
    IF \E i \in 1..Len(chars) : chars[i] = c
    THEN CHOOSE i \in 1..Len(chars) :
            chars[i] = c /\ \A j \in 1..(i - 1) : chars[j] # c
    ELSE 0

\* str::split(c): the pieces between the separators, empty pieces included;
\* the empty string splits into one empty piece
RECURSIVE Split(_, _)
Split(chars, c) ==
    LET i == FirstIndexOf(chars, c)
    IN  IF i = 0
        THEN <<chars>>
        ELSE <<SubSeq(chars, 1, i - 1)>> \o Split(SubSeq(chars, i + 1, Len(chars)), c)

(* ---------------------- each_node / each_node_mut ---------------------- *)

\* path.trim_matches('/').split('/') collected into the segment list
ParsePath(path) == Split(TrimMatches(path, "/"), "/")

\* context.push_str(type, key) appends a labelled segment
PushStr(context, type_, key) == Append(context, [type |-> Cat(type_), key |-> key])

\* context.pop() removes the most recently pushed segment
Pop(context) == Front(context)

\* the wildcard key is not taken for a wildcard
NeverWildcard(key) == FALSE

\* match *search_key { "*" => ..., real_path => ... }
IsWildcard(key) == key = <<"*">>

DigitValue(c) == CASE c = "0" -> 0 [] c = "1" -> 1 [] c = "2" -> 2 [] OTHER -> -1

\* the array index a pointer token stands for, -1 when it is not an index:
\* decimal digits only, no leading zero except for "0" itself
RECURSIVE ParseDigits(_, _)
ParseDigits(token, acc) ==
    IF token = <<>> THEN acc
    ELSE IF DigitValue(Head(token)) < 0 THEN -1
    ELSE ParseDigits(Tail(token), 10 * acc + DigitValue(Head(token)))

ParseIndex(token) ==
    IF token = <<>> \/ (Head(token) = "0" /\ Len(token) # 1)
    THEN -1
    ELSE ParseDigits(token, 0)

\* node.pointer(&["/", real_path].join("")): the place among the node's
\* children the one-token pointer leads to, 0 when it leads nowhere.  An
\* Object is searched by key, an Array by index, anything else has no child
PointerPos(node, real_path) ==
    IF IsObject(node) THEN KeyIndex(node.kids, Cat(real_path))
    ELSE IF IsArray(node)
         THEN LET i == ParseIndex(real_path)
              IN  IF i >= 0 /\ i < Len(node.kids) THEN i + 1 ELSE 0
         ELSE 0

\* the callback f(node, parts, context) supplied by the caller: it is handed
\* the node, a snapshot of the captured parts and the scope; the failAt-th
\* call fails, and a mutating callback replaces the node it is handed
Callback(node, r) ==
    LET n == Len(r.calls) + 1
        failed == n = r.f.failAt
    IN  [r EXCEPT !.calls = Append(@, [node |-> node, parts |-> r.parts,
                                        context |-> r.context]),
                  !.res = IF failed THEN "CallbackError" ELSE "Ok",
                  !.node = IF r.f.mutates /\ ~failed THEN Null ELSE node]

\* the captured key stays in the accumulator
KeepPart(parts) == parts

\* parts.pop()
PopPart(parts) == Front(parts)

\* a wildcard over a node that is not an Object is passed over
SkipNode(r) == [r EXCEPT !.res = "Ok"]

\* _ => Err(Error::NotImplemented)
NotImplemented(r) == [r EXCEPT !.res = "NotImplemented"]

\* the segment pushed for a key that is not found stays on the scope
NotFoundLeaks(r) == r

\* the pointer finds nothing: the if-let is passed over, context.pop(); Ok(())
NotFound(r) == [r EXCEPT !.context = Pop(@), !.res = "Ok"]

\* panic!("Incorrect path: {}", search)
Panic(r) == [r EXCEPT !.res = "panic"]

\* the failure of the nested call is not looked at
NeverFailed(sub) == FALSE

\* each_mut(...)?: the nested call has returned a failure, which `?` hands on
Failed(sub) == sub.res # "Ok"

\* the first failure of the traversal is kept on record, with the number of
\* callback calls made until then
Noted(r) ==
    IF r.res # "Ok" /\ r.failure.res = "Ok"
    THEN [r EXCEPT !.failure = [res |-> r.res, calls |-> Len(r.calls)]]
    ELSE r

\* the node with its i-th child replaced
WithChild(node, i, child) == [node EXCEPT !.kids[i].v = child]

RECURSIVE Each(_, _, _, _)
RECURSIVE EachKey(_, _, _, _, _, _)

\* for (key, value) in map { ... } from the i-th entry on
EachKey(node, r, path, index, type_, i) ==
    IF i > Len(node.kids)
    THEN [r EXCEPT !.res = "Ok", !.node = node]
    ELSE LET key == node.kids[i].k
             pushed == [r EXCEPT !.context = PushStr(@, type_, key),
                                 !.parts = Append(@, key)]
             sub == Each(node.kids[i].v, pushed, path, index + 1)
             node2 == WithChild(node, i, sub.node)
         IN  IF Failed(sub)
             THEN [sub EXCEPT !.node = node2]
             ELSE EachKey(node2,
                          [sub EXCEPT !.parts = PopPart(@), !.context = Pop(@)],
                          path, index, type_, i + 1)

\* real_path => { push_str; if let Some(found) = pointer { each(...)? }; pop; Ok }
EachLiteral(node, r, path, index, type_, real_path) ==
    LET pushed == [r EXCEPT !.context = PushStr(@, type_, Cat(real_path))]
        pos == PointerPos(node, real_path)
    IN  IF pos = 0
        THEN LET out == NotFound(pushed)
             IN  [out EXCEPT !.node = node,
                             !.misses = Append(@, [before |-> r.context,
                                                   after |-> out.context,
                                                   res |-> out.res,
                                                   calls |-> Len(out.calls) - Len(r.calls)])]
        ELSE LET sub == Each(node.kids[pos].v, pushed, path, index + 1)
                 node2 == WithChild(node, pos, sub.node)
             IN  IF Failed(sub)
                 THEN [sub EXCEPT !.node = node2]
                 ELSE [sub EXCEPT !.node = node2, !.context = Pop(@), !.res = "Ok"]

\* each / each_mut: the two differ only in the mutability of the references
Each(node, r, path, index) ==
    IF index > Len(path)
    THEN Noted(Callback(node, r))
    ELSE LET pieces == Split(path[index], ":")
         IN  IF Len(pieces) # 2
             THEN Noted(Panic([r EXCEPT !.node = node]))
             ELSE IF IsWildcard(pieces[2])
                  THEN IF IsObject(node)
                       THEN EachKey(node, r, path, index, pieces[1], 1)
                       ELSE [Noted(NotImplemented(r)) EXCEPT !.node = node, !.shape = TRUE]
                  ELSE EachLiteral(node, r, path, index, pieces[1], pieces[2])

\* the state a call starts from: each(root, context, &parts, 0, &mut vec![], &mut f)
Entered(w) ==
    [res |-> "Ok", context |-> w.context0, parts |-> <<>>, calls |-> <<>>,
     misses |-> <<>>, shape |-> FALSE, node |-> w.root0, f |-> w.f,
     failure |-> [res |-> "Ok", calls |-> 0]]

\* what the caller finds once the call is over
Returned(w, entry, r) ==
    [at |-> "returned", entry |-> entry, root0 |-> w.root0, context0 |-> w.context0,
     path |-> w.path, f |-> w.f, res |-> r.res, root |-> r.node,
     context |-> r.context, parts |-> r.parts, calls |-> r.calls,
     misses |-> r.misses, shape |-> r.shape, failure |-> r.failure]

(* ------------------- the walker calls that are made -------------------- *)

\* a path pattern has at most MaxSegs segments
MaxSegs == 2

\* str::join: the pieces with the separator between them
RECURSIVE Join(_, _)
Join(pieces, c) ==
    IF Len(pieces) = 1 THEN Head(pieces)
    ELSE Head(pieces) \o <<c>> \o Join(Tail(pieces), c)

\* segments: literal keys, an array index, the wildcard, and malformed ones
\* (no ':' at all, two ':', nothing)
Segments ==
    { <<"t", ":", "a">>, <<"u", ":", "b">>, <<"t", ":", "0">>, <<"t", ":", "*">>,
      <<"a">>, <<"a", ":", "b", ":", "c">>, <<>> }

PropertiesStar == <<"p", "r", "o", "p", "e", "r", "t", "i", "e", "s", ":", "*">>

AnyProperties == <<"a", "n", "y", ":", "p", "r", "o", "p", "e", "r", "t", "i", "e", "s">>

Paths ==
    LET joined == {Join(segs, "/") : segs \in SeqsUpTo(Segments, MaxSegs)}
    IN  joined
        \cup {<<"/">> \o path : path \in joined}
        \cup {PropertiesStar, Join(<<AnyProperties, <<"a", "n", "y", ":", "*">>>>, "/")}

WalkLeaves == {Num(1), Obj(<<>>), Obj1("a", Num(1)), Arr(<<Num(1)>>)}

WalkDocs ==
    {Num(1), Obj(<<>>)}
    \cup {Obj1("properties", Obj2("p1", Obj(<<>>), "p2", Obj(<<>>)))}
    \cup {Obj2("a", v, "b", Num(2)) : v \in WalkLeaves}
    \cup {Obj1("a", Obj2(ks[1], Num(1), ks[2], v)) :
            ks \in {<<"a", "b">>, <<"b", "a">>}, v \in {Num(2), Obj(<<>>)}}
    \cup {Obj2("b", Obj1("a", Num(1)), "a", Obj1("b", Num(2)))}
    \cup {Obj2("a", Obj2("a", Num(1), "b", Num(2)), "b", Obj1("a", Num(1)))}
    \cup {Arr(<<Obj1("a", Num(1)), Num(2)>>)}

\* callbacks: one that observes, two that fail at their first or second call,
\* and two that replace the node they are handed, one of them until it fails
\* at its second call
Callbacks ==
    {[failAt |-> n, mutates |-> FALSE] : n \in 0..2}
    \cup {[failAt |-> n, mutates |-> TRUE] : n \in {0, 2}}

Contexts == {<<>>, <<[type |-> "any", key |-> "root"]>>}

\* neither process nor merge_values is running
CoreIdle ==
    /\ input = Null
    /\ root = Null
    /\ scope = <<>>
    /\ stack = <<>>
    /\ pc = "idle"
    /\ last = NoCall
    /\ returned = {}
    /\ resolved = {}
    /\ target = Null
    /\ source = Null
    /\ result = Null
    /\ called = FALSE
    /\ passes = <<>>

WalkInit ==
    /\ walk \in {[at |-> "ready", root0 |-> d, context0 |-> c, path |-> p, f |-> f] :
                    d \in WalkDocs, c \in Contexts, p \in Paths, f \in Callbacks}
    /\ extr = [at |-> "idle"]
    /\ fill = [at |-> "idle"]
    /\ CoreIdle

\* each_node(root, context, path, f): the callback gets shared references
CallEachNode ==
    /\ walk.at = "ready"
    /\ ~walk.f.mutates
    /\ walk' = Returned(walk, "each_node", Each(walk.root0, Entered(walk), ParsePath(walk.path), 1))
    /\ UNCHANGED <<mergerVars, mergeVars, passes, extr, fill>>

\* each_node_mut(root, context, path, f): the callback may change the node
CallEachNodeMut ==
    /\ walk.at = "ready"
    /\ walk' = Returned(walk, "each_node_mut", Each(walk.root0, Entered(walk), ParsePath(walk.path), 1))
    /\ UNCHANGED <<mergerVars, mergeVars, passes, extr, fill>>

WalkNext ==
    \/ CallEachNode
    \/ CallEachNodeMut

WalkSpec == WalkInit /\ [][WalkNext]_vars

(* ------------------- what the walker claims speak about ---------------- *)

WalkReturned == walk.at = "returned"

\* the segment list the call works on
WalkSegments == ParsePath(walk.path)

\* every segment consists of exactly two ':'-separated parts
WellFormed(segs) == \A i \in 1..Len(segs) : Len(Split(segs[i], ":")) = 2

\* the sequences of s, each with x put in front
Prefixed(x, s) == [i \in 1..Len(s) |-> [s[i] EXCEPT !.parts = <<x>> \o @]]

\* the nodes below node that the segments from index on select, in document
\* order, each with the keys that its wildcard segments stand for
RECURSIVE Matches(_, _, _)
RECURSIVE MatchesFrom(_, _, _, _)
MatchesFrom(node, segs, index, i) ==
    IF i > Len(node.kids) THEN <<>>
    ELSE Prefixed(node.kids[i].k, Matches(node.kids[i].v, segs, index + 1))
         \o MatchesFrom(node, segs, index, i + 1)

Matches(node, segs, index) ==
    IF index > Len(segs) THEN <<[parts |-> <<>>, node |-> node]>>
    ELSE LET key == Split(segs[index], ":")[2]
         IN  IF key = <<"*">>
             THEN IF IsObject(node) THEN MatchesFrom(node, segs, index, 1) ELSE <<>>
             ELSE IF PointerPos(node, key) = 0 THEN <<>>
                  ELSE Matches(node.kids[PointerPos(node, key)].v, segs, index + 1)

\* the positions of the wildcard segments
WildcardPositions(segs) ==
    {i \in 1..Len(segs) : Len(Split(segs[i], ":")) = 2 /\ Split(segs[i], ":")[2] = <<"*">>}

\* C11: for a well-formed pattern the callback is called for the nodes the
\* pattern selects, one call per node and in document order (the object's own
\* key order at every wildcard), each call receiving the node and exactly the
\* keys chosen at the wildcard positions, as many as the pattern has
\* wildcards; a call that returns success has made all of these calls, a call
\* that fails has made the first ones of them
C11_WildcardCapturesKeysInOrder ==
    (WalkReturned /\ WellFormed(WalkSegments)) =>
        LET m == Matches(walk.root0, WalkSegments, 1)
        IN  /\ Len(walk.calls) <= Len(m)
            /\ walk.res = "Ok" => Len(walk.calls) = Len(m)
            /\ \A i \in 1..Len(walk.calls) :
                /\ walk.calls[i].parts = m[i].parts
                /\ walk.calls[i].node = m[i].node
                /\ Len(walk.calls[i].parts) = Cardinality(WildcardPositions(WalkSegments))

\* a literal segment followed by a wildcard over an object of two keys: two
\* calls, each with the one key of the wildcard position
C11_Witness ==
    /\ WalkReturned
    /\ walk.res = "Ok"
    /\ WellFormed(WalkSegments)
    /\ Len(WalkSegments) = 2
    /\ WildcardPositions(WalkSegments) = {2}
    /\ Len(walk.calls) = 2
    /\ walk.calls[1].parts = <<"b">>
    /\ walk.calls[2].parts = <<"a">>

\* the root {"properties":{"p1":{},"p2":{}}}
PropertiesDoc == Obj1("properties", Obj2("p1", Obj(<<>>), "p2", Obj(<<>>)))

\* the captured parts of the calls made, in the order of the calls
CapturedParts == [i \in 1..Len(walk.calls) |-> walk.calls[i].parts]

\* a call on {"properties":{"p1":{},"p2":{}}} with a callback that never fails
OnPropertiesDoc(path) ==
    /\ WalkReturned
    /\ walk.root0 = PropertiesDoc
    /\ walk.path = path
    /\ walk.f.failAt = 0

\* C12 as stated: the pattern `properties:*` on {"properties":{"p1":{},"p2":{}}}
\* makes exactly two calls, with captured parts ["p1"] and then ["p2"]
C12_Original ==
    OnPropertiesDoc(PropertiesStar) => CapturedParts = << <<"p1">>, <<"p2">> >>

\* C12: in the pattern `properties:*` the word before the ':' is the segment's
\* type and the wildcard ranges over the keys of the root, so on
\* {"properties":{"p1":{},"p2":{}}} the callback is called exactly once, with
\* captured parts ["properties"] and the node {"p1":{},"p2":{}}; it is the
\* pattern `any:properties/any:*` that makes exactly two calls, with captured
\* parts ["p1"] and then ["p2"]
C12_PropertiesStarCapturesRootKey ==
    /\ OnPropertiesDoc(PropertiesStar) =>
        /\ walk.res = "Ok"
        /\ CapturedParts = << <<"properties">> >>
        /\ walk.calls[1].node = Obj2("p1", Obj(<<>>), "p2", Obj(<<>>))
    /\ OnPropertiesDoc(Join(<<AnyProperties, <<"a", "n", "y", ":", "*">>>>, "/")) =>
        /\ walk.res = "Ok"
        /\ CapturedParts = << <<"p1">>, <<"p2">> >>

\* the call with `properties:*` on that root has returned from its one callback
C12_Witness ==
    /\ OnPropertiesDoc(PropertiesStar)
    /\ Len(walk.calls) = 1
    /\ walk.calls[1].context = walk.context0 \o <<[type |-> "properties", key |-> "properties"]>>

\* C13 as stated: whether the call returns success, the callback's failure or
\* the failure of a wildcard on a node that is not an Object, the scope holds
\* exactly the segments it held when the entry point was called
C13_ScopeBalancedOnEveryExit ==
    (WalkReturned /\ walk.res \in {"Ok", "CallbackError", "NotImplemented"}) =>
        walk.context = walk.context0

\* C14: a call in which a wildcard segment met a node that is not an Object,
\* at whatever depth, returns Error::NotImplemented to the caller of the
\* entry point and not success
C14_WildcardOnNonObjectFails ==
    (WalkReturned /\ walk.shape) => walk.res = "NotImplemented"

\* the wildcard of the second segment met a non-Object below an Object root,
\* after the callback had already been called for an earlier key
C14_Witness ==
    /\ WalkReturned
    /\ walk.shape
    /\ walk.res = "NotImplemented"
    /\ IsObject(walk.root0)
    /\ Len(WalkSegments) = 2
    /\ Len(walk.calls) > 0

\* C15 as stated: a call whose pattern has a segment that does not consist of
\* exactly two ':'-separated parts never returns success, whatever the
\* document is
C15_MalformedPatternNeverSucceeds ==
    (WalkReturned /\ ~WellFormed(WalkSegments)) => walk.res # "Ok"

\* the pattern is one literal segment
OneLiteral(segs) == Len(segs) = 1 /\ WellFormed(segs) /\ WildcardPositions(segs) = {}

\* C16: an attempt at a literal segment whose key names no child of the
\* current node calls no callback, yields success for that branch and leaves
\* the scope as it was before the attempt, the pushed segment popped again;
\* a call whose pattern is such a segment alone returns success with no
\* callback called and the scope as it was handed in
C16_MissingLiteralIsSkipped ==
    WalkReturned =>
        /\ \A i \in 1..Len(walk.misses) :
            /\ walk.misses[i].after = walk.misses[i].before
            /\ walk.misses[i].res = "Ok"
            /\ walk.misses[i].calls = 0
        /\ (OneLiteral(WalkSegments) /\ Matches(walk.root0, WalkSegments, 1) = <<>>) =>
            /\ walk.res = "Ok"
            /\ walk.calls = <<>>
            /\ walk.context = walk.context0
            /\ Len(walk.misses) = 1

\* a call with a non-empty scope whose one literal segment names no child
C16_Witness ==
    /\ WalkReturned
    /\ OneLiteral(WalkSegments)
    /\ IsObject(walk.root0) /\ walk.root0.kids # <<>>
    /\ Len(walk.misses) = 1
    /\ walk.context0 # <<>>
    /\ walk.res = "Ok"

(* -------------------- the recursion of the pass ------------------------ *)

Max(S) == CHOOSE x \in S : \A y \in S : y <= x

\* the nested merge_values calls that merge_values(a, b) stacks up, itself
\* included: the (Object, Object) arm calls itself for every entry of b, on
\* a's value for the key or on a fresh Null
RECURSIVE MergeCallDepth(_, _)
MergeCallDepth(a, b) ==
    IF IsObject(a) /\ IsObject(b)
    THEN 1 + Max({0} \cup {MergeCallDepth(Get(a, b.kids[i].k), b.kids[i].v) :
                            i \in 1..Len(b.kids)})
    ELSE 1

\* the deepest merge_values recursion of the loop for n in 1..size
RECURSIVE AccumulateCallDepth(_, _, _)
AccumulateCallDepth(first, schemas, n) ==
    IF n > Len(schemas)
    THEN 0
    ELSE Max({MergeCallDepth(first, schemas[n].v),
              AccumulateCallDepth(MergeValues(first, schemas[n].v), schemas, n + 1)})

\* the calls that process_merge(node) stacks up, itself included
ProcessMergeDepth(node) ==
    IF MergeKind(node) # "merged"
    THEN 1
    ELSE LET schemas == AllOfValue(node).kids
         IN  1 + Max({AccumulateCallDepth(schemas[1].v, schemas, 2),
                      MergeCallDepth(Obj(SwapRemove(node.kids, AllOfIndex(node.kids))),
                                     Accumulate(schemas))})

(* ---------------------------- C17 -------------------------------------- *)

\* the number of nodes on the longest way from v down to a leaf
RECURSIVE Depth(_)
Depth(v) == 1 + Max({0} \cup {Depth(v.kids[i].v) : i \in 1..Len(v.kids)})

\* the steps a process_node call on v takes: one to return, and for every
\* child one to descend plus the steps of the child's call
RECURSIVE Cost(_)
RECURSIVE CostFrom(_, _)
CostFrom(v, c) ==
    IF c >= Len(v.kids) THEN 0
    ELSE 1 + Cost(v.kids[c + 1].v) + CostFrom(v, c + 1)

Cost(v) == 1 + CostFrom(v, 0)

\* the steps the k innermost active calls still have to take
RECURSIVE Pending(_)
Pending(k) ==
    IF k = 0 THEN 0
    ELSE LET path == SubSeq(scope, 1, Len(stack) - k)
         IN  1 + CostFrom(GetAt(root, path), stack[k]) + Pending(k - 1)

\* the steps the pass still has to take
Remaining ==
    IF pc = "ready" THEN 1 + Cost(root)
    ELSE IF pc = "run" THEN Pending(Len(stack))
    ELSE 0

\* the calls on the stack while the call that returned last was at its deepest
DeepestAtLast ==
    Len(last.path) + 1
    + (IF last.kind \in {"merged", "empty", "notarray"} THEN ProcessMergeDepth(last.before) ELSE 0)

\* every active call works on a node of the document, and its loop is at one
\* of the node's children or past the last: one arm of process_node applies
CallsWellPlaced ==
    pc = "run" =>
        /\ stack # <<>>
        /\ Len(stack) = Len(scope) + 1
        /\ NodeExists(root, scope)
        /\ Head(stack) <= Len(Node.kids)

\* C17: until the pass has returned, every active call stands on a node of
\* the document for which an arm of process_node applies, and every step
\* brings the pass nearer to its return, so that it returns after as many
\* steps as the input document determines; neither the active process_node
\* calls nor the process_merge and merge_values calls stacked on them ever
\* number more than the nesting depth of the document
C17_ProcessTerminatesWithinDepth ==
    /\ [](CallsWellPlaced /\ Len(stack) <= Depth(input))
    /\ [](last.kind # "none" => DeepestAtLast <= Depth(input))
    /\ [](Remaining <= 1 + Cost(input) /\ (Remaining = 0 <=> pc = "done"))
    /\ [][Remaining' < Remaining]_vars

\* the pass has returned, and the merge at the root stacked up as many calls
\* as the document is deep
C17_Witness ==
    /\ pc = "done"
    /\ last.kind = "merged"
    /\ Depth(input) >= 4
    /\ DeepestAtLast = Depth(input)

(* ------------------------ ArgumentsExtractor --------------------------- *)

\* a command string has at most MaxCommand characters
MaxCommand == 4

\* the characters a command is made of: a letter, whitespace, the two quote
\* characters and the backslash
CommandChars == {"a", " ", "\"", "'", "\\"}

Commands == {<<>>} \cup SeqsUpTo(CommandChars, MaxCommand)

\* c.is_whitespace()
IsWhitespace(c) == c = " "

\* the while-let loop of next: what is left of self.chars, the argument built
\* so far, whether the last character was a backslash, and the open quote
\* ("" for None); it gives the value returned and the characters left
RECURSIVE Scan(_, _, _, _)
Scan(chars, out, escaped, quote_char) ==
    IF chars = <<>>
    THEN [some |-> out # <<>>, item |-> out, chars |-> chars]
    ELSE LET c == Head(chars)
             rest == Tail(chars)
         IN  IF escaped THEN Scan(rest, Append(out, c), FALSE, quote_char)
             ELSE IF c = "\\" THEN Scan(rest, out, TRUE, quote_char)
             ELSE IF quote_char # ""
                  THEN IF c = quote_char
                       THEN Scan(rest, out, FALSE, "")
                       ELSE Scan(rest, Append(out, c), FALSE, quote_char)
             ELSE IF c = "'" \/ c = "\"" THEN Scan(rest, out, FALSE, c)
             ELSE IF IsWhitespace(c)
                  THEN IF out # <<>>
                       THEN [some |-> TRUE, item |-> out, chars |-> rest]
                       ELSE Scan(rest, out, FALSE, quote_char)
             ELSE Scan(rest, Append(out, c), FALSE, quote_char)

ExtractorInit ==
    /\ extr \in {[at |-> "iter", command |-> c, chars |-> c, yielded |-> <<>>,
                  ended |-> FALSE] : c \in Commands}
    /\ walk = [at |-> "idle"]
    /\ fill = [at |-> "idle"]
    /\ CoreIdle

\* ArgumentsExtractor::next returning Some(out)
NextSome ==
    /\ extr.at = "iter"
    /\ ~extr.ended
    /\ LET r == Scan(extr.chars, <<>>, FALSE, "")
       IN  /\ r.some
           /\ extr' = [extr EXCEPT !.chars = r.chars, !.yielded = Append(@, r.item)]
    /\ UNCHANGED <<mergerVars, mergeVars, passes, walk, fill>>

\* ArgumentsExtractor::next returning None
NextNone ==
    /\ extr.at = "iter"
    /\ ~extr.ended
    /\ LET r == Scan(extr.chars, <<>>, FALSE, "")
       IN  /\ ~r.some
           /\ extr' = [extr EXCEPT !.chars = r.chars, !.ended = TRUE]
    /\ UNCHANGED <<mergerVars, mergeVars, passes, walk, fill>>

ExtractorNext ==
    \/ NextSome
    \/ NextNone

ExtractorSpec == ExtractorInit /\ [][ExtractorNext]_vars

(* ---------------------------- C18 -------------------------------------- *)

\* the quote that is open after the first n characters of a command without
\* backslashes, "" when none is
RECURSIVE QuoteAfter(_, _)
QuoteAfter(chars, n) ==
    IF n = 0 THEN ""
    ELSE LET q == QuoteAfter(chars, n - 1)
             c == chars[n]
         IN  IF q # "" THEN (IF c = q THEN "" ELSE q)
             ELSE IF c \in {"'", "\""} THEN c ELSE ""

NoBackslash(chars) == \A i \in 1..Len(chars) : chars[i] # "\\"

BalancedQuotes(chars) == QuoteAfter(chars, Len(chars)) = ""

\* the i-th character is whitespace outside quotes
SplitsAt(chars, i) == chars[i] = " " /\ QuoteAfter(chars, i - 1) = ""

\* the i-th character opens or closes a quoted section
DelimitsAt(chars, i) == QuoteAfter(chars, i - 1) # QuoteAfter(chars, i)

\* the pieces between the whitespace outside quotes, from the i-th character
\* on, each without the quote characters that delimit its quoted sections;
\* piece is the one being read, started tells whether it has a character yet
RECURSIVE PiecesFrom(_, _, _, _)
PiecesFrom(chars, i, piece, started) ==
    IF i > Len(chars) THEN (IF started THEN <<piece>> ELSE <<>>)
    ELSE IF SplitsAt(chars, i)
         THEN (IF started THEN <<piece>> ELSE <<>>) \o PiecesFrom(chars, i + 1, <<>>, FALSE)
         ELSE IF DelimitsAt(chars, i)
              THEN PiecesFrom(chars, i + 1, piece, TRUE)
              ELSE PiecesFrom(chars, i + 1, Append(piece, chars[i]), TRUE)

\* C18 as stated: for a command without backslashes and with balanced quotes
\* the iterator has yielded, when it yields None, the pieces between the
\* whitespace outside quotes, in order, every quoted section kept within its
\* piece with its whitespace and without its quote characters
C18_YieldsTheQuotedPieces ==
    (extr.at = "iter" /\ extr.ended
        /\ NoBackslash(extr.command) /\ BalancedQuotes(extr.command)) =>
        extr.yielded = PiecesFrom(extr.command, 1, <<>>, FALSE)

(* --------------------------- fill_parameters --------------------------- *)

\* a phrase has at most MaxPhrase characters
MaxPhrase == 5

\* Value::String: the characters are kept as the keys of the children
Str(chars) == Value("str", 0, [i \in 1..Len(chars) |-> Entry(chars[i], Null)])

IsString(v) == v.t = "str"

IsNumber(v) == v.t = "num"

\* the characters of a Value::String
Text(v) == [i \in 1..Len(v.kids) |-> v.kids[i].k]

Digit(d) ==
    CASE d = 0 -> "0" [] d = 1 -> "1" [] d = 2 -> "2" [] d = 3 -> "3" [] d = 4 -> "4"
      [] d = 5 -> "5" [] d = 6 -> "6" [] d = 7 -> "7" [] d = 8 -> "8" [] OTHER -> "9"

\* Number::to_string of a natural number: its decimal digits
RECURSIVE NumberToString(_)
NumberToString(n) == IF n < 10 THEN <<Digit(n)>> ELSE NumberToString(n \div 10) \o <<Digit(n % 10)>>

\* str::replace(".", "/")
ReplaceDots(chars) == [i \in 1..Len(chars) |-> IF chars[i] = "." THEN "/" ELSE chars[i]]

\* Value::pointer along the tokens of the path: the value found, or none
RECURSIVE PointerFrom(_, _)
PointerFrom(value, tokens) ==
    IF tokens = <<>> THEN [found |-> TRUE, value |-> value]
    ELSE LET pos == PointerPos(value, Head(tokens))
         IN  IF pos = 0 THEN [found |-> FALSE, value |-> Null]
             ELSE PointerFrom(value.kids[pos].v, Tail(tokens))

\* json!(data).pointer(&format!("/{}", current.replace(".", "/")))
Lookup(data, current) == PointerFrom(data, Split(ReplaceDots(current), "/"))

\* the for loop of fill_parameters from the rest of the phrase on
RECURSIVE FillFrom(_, _, _, _, _)
FillFrom(chars, data, filled, current, parameter) ==
    IF chars = <<>>
    THEN [ok |-> TRUE, text |-> filled]
    ELSE LET c == Head(chars)
             rest == Tail(chars)
         IN  IF c = "%"
             THEN IF current # <<>>
                  THEN LET got == Lookup(data, current)
                       IN  IF got.found /\ IsString(got.value)
                           THEN FillFrom(rest, data, filled \o Text(got.value), <<>>, ~parameter)
                           ELSE IF got.found /\ IsNumber(got.value)
                           THEN FillFrom(rest, data, filled \o NumberToString(got.value.n), <<>>, ~parameter)
                           ELSE [ok |-> FALSE, text |-> <<"/">> \o ReplaceDots(current)]
                  ELSE FillFrom(rest, data, filled, current, ~parameter)
             ELSE IF parameter
                  THEN FillFrom(rest, data, filled, Append(current, c), parameter)
                  ELSE FillFrom(rest, data, Append(filled, c), current, parameter)

FillParameters(phrase, data) == FillFrom(phrase, data, <<>>, <<>>, FALSE)

PhraseChars == {"%", "a", ".", " "}

Phrases == {<<>>} \cup SeqsUpTo(PhraseChars, MaxPhrase)

\* data with a String, with a Number of two digits, with a nested String next
\* to a Null, with an Array, and empty data
FillData ==
    { Obj1("a", Str(<<"x", " ">>)),
      Obj1("a", Num(12)),
      Obj1("a", Obj2("a", Str(<<"x">>), "b", Null)),
      Obj1("a", Arr(<<Num(1)>>)),
      Obj(<<>>) }

FillInit ==
    /\ fill \in {[at |-> "ready", phrase |-> p, data |-> d] : p \in Phrases, d \in FillData}
    /\ walk = [at |-> "idle"]
    /\ extr = [at |-> "idle"]
    /\ CoreIdle

\* fill_parameters(phrase, data) returning Ok(result)
FillOk ==
    /\ fill.at = "ready"
    /\ LET r == FillParameters(fill.phrase, fill.data)
       IN  /\ r.ok
           /\ fill' = [at |-> "returned", phrase |-> fill.phrase, data |-> fill.data,
                       ok |-> TRUE, text |-> r.text]
    /\ UNCHANGED <<mergerVars, mergeVars, passes, walk, extr>>

\* fill_parameters(phrase, data) returning Err(Error::CannotFillParameters(path))
FillErr ==
    /\ fill.at = "ready"
    /\ LET r == FillParameters(fill.phrase, fill.data)
       IN  /\ ~r.ok
           /\ fill' = [at |-> "returned", phrase |-> fill.phrase, data |-> fill.data,
                       ok |-> FALSE, text |-> r.text]
    /\ UNCHANGED <<mergerVars, mergeVars, passes, walk, extr>>

FillNext ==
    \/ FillOk
    \/ FillErr

FillSpec == FillInit /\ [][FillNext]_vars

(* ---------------------------- C19 -------------------------------------- *)

\* the place of the `%` that closes the placeholder opened at i: the next `%`
\* after at least one other character; 0 when the `%` at i opens none
ClosingAt(chars, i) ==
    IF i + 1 <= Len(chars) /\ chars[i + 1] # "%"
       /\ \E j \in (i + 2)..Len(chars) : chars[j] = "%"
    THEN CHOOSE j \in (i + 2)..Len(chars) :
            chars[j] = "%" /\ \A k \in (i + 1)..(j - 1) : chars[k] # "%"
    ELSE 0

\* the text that stands for the placeholder named name: that of the String or
\* Number at the path a/b for the name a.b
PlaceholderText(data, name) ==
    LET got == PointerFrom(data, Split(name, "."))
    IN  IF got.found /\ IsString(got.value) THEN [ok |-> TRUE, text |-> Text(got.value)]
        ELSE IF got.found /\ IsNumber(got.value)
             THEN [ok |-> TRUE, text |-> NumberToString(got.value.n)]
             ELSE [ok |-> FALSE, text |-> <<>>]

\* the phrase from its i-th character on with every placeholder replaced and
\* every other character copied; no result when a placeholder cannot be filled
RECURSIVE Expand(_, _, _)
Expand(chars, data, i) ==
    IF i > Len(chars) THEN [ok |-> TRUE, text |-> <<>>]
    ELSE IF chars[i] = "%" /\ ClosingAt(chars, i) # 0
         THEN LET j == ClosingAt(chars, i)
                  here == PlaceholderText(data, SubSeq(chars, i + 1, j - 1))
                  rest == Expand(chars, data, j + 1)
              IN  IF here.ok /\ rest.ok
                  THEN [ok |-> TRUE, text |-> here.text \o rest.text]
                  ELSE [ok |-> FALSE, text |-> <<>>]
         ELSE LET rest == Expand(chars, data, i + 1)
              IN  IF rest.ok
                  THEN [ok |-> TRUE, text |-> <<chars[i]>> \o rest.text]
                  ELSE rest

\* C19 as stated: the result is the phrase with every placeholder replaced by
\* the text of the String or Number at its path and every character outside
\* placeholders copied unchanged and in order, and the call returns
\* Error::CannotFillParameters instead when a placeholder's path is absent or
\* holds neither a String nor a Number
C19_FillsEveryPlaceholder ==
    fill.at = "returned" =>
        LET want == Expand(fill.phrase, fill.data, 1)
        IN  /\ fill.ok = want.ok
            /\ fill.ok => fill.text = want.text

(* ------------------- process called a second time ---------------------- *)

\* process is called again on the schema that the first call has normalized
ProcessAgain ==
    /\ pc = "done"
    /\ passes = <<>>
    /\ passes' = <<root>>
    /\ pc' = "run"
    /\ stack' = <<0>>
    /\ scope' = <<>>
    /\ last' = NoCall
    /\ returned' = {}
    /\ resolved' = {}
    /\ UNCHANGED <<input, root, mergeVars, toolVars>>

TwiceNext ==
    \/ Next
    \/ ProcessAgain

TwiceSpec == Init /\ [][TwiceNext]_vars

(* ---------------------------- C20 -------------------------------------- *)

\* C20: once a pass has returned, every allOf key left anywhere in the
\* document holds an empty array or a value that is not an array, and a second
\* pass over that document merges nothing and leaves it, at every step and at
\* its return, exactly as the first pass left it
C20_SecondPassChangesNothing ==
    /\ pc = "done" => ~HasResolvable(root)
    /\ passes # <<>> =>
        /\ root = passes[1]
        /\ resolved = {}

\* the second pass has returned from a document that the first pass changed
\* and in which it left an allOf key
C20_Witness ==
    /\ pc = "done"
    /\ passes # <<>>
    /\ root # input
    /\ HasAllOfKey(root)
    /\ last.kind = "empty"

(* ---------------------------- C21 -------------------------------------- *)

Min(a, b) == IF a <= b THEN a ELSE b

\* the document below node once the first n of the nodes that the segments
\* from index on select have been replaced by Null, the others left alone
RECURSIVE Touched(_, _, _, _)
RECURSIVE TouchedFrom(_, _, _, _, _)
TouchedFrom(node, segs, index, i, n) ==
    IF i > Len(node.kids) \/ n = 0 THEN node
    ELSE LET child == node.kids[i].v
             k == Min(n, Len(Matches(child, segs, index + 1)))
         IN  TouchedFrom(WithChild(node, i, Touched(child, segs, index + 1, k)),
                         segs, index, i + 1, n - k)

Touched(node, segs, index, n) ==
    IF index > Len(segs) THEN (IF n > 0 THEN Null ELSE node)
    ELSE LET key == Split(segs[index], ":")[2]
         IN  IF key = <<"*">>
             THEN IF IsObject(node) THEN TouchedFrom(node, segs, index, 1, n) ELSE node
             ELSE IF PointerPos(node, key) = 0 THEN node
                  ELSE WithChild(node, PointerPos(node, key),
                                 Touched(node.kids[PointerPos(node, key)].v, segs, index + 1, n))

\* the callback calls that returned success
Succeeded == Len(walk.calls) - (IF walk.failure.res = "CallbackError" THEN 1 ELSE 0)

\* C21: when a callback call or a wildcard on a node that is not an Object
\* has failed, the entry point returns that very failure, no callback has
\* been called after it (a callback that fails at its n-th call has been
\* called n times), and the document holds the changes of the callbacks that
\* succeeded before the failure and no other change
C21_FirstFailureEndsTraversal ==
    (WalkReturned /\ walk.failure.res \in {"CallbackError", "NotImplemented"}) =>
        /\ walk.res = walk.failure.res
        /\ Len(walk.calls) = walk.failure.calls
        /\ walk.failure.res = "CallbackError" => Len(walk.calls) = walk.f.failAt
        /\ ~walk.f.mutates => walk.root = walk.root0
        /\ (walk.f.mutates /\ WellFormed(WalkSegments)) =>
            walk.root = Touched(walk.root0, WalkSegments, 1, Succeeded)

\* each_node_mut over three matching nodes with a callback that changes the
\* first and fails at the second: the third is never handed to it
C21_Witness ==
    /\ WalkReturned
    /\ walk.entry = "each_node_mut"
    /\ walk.f.mutates
    /\ walk.res = "CallbackError"
    /\ WellFormed(WalkSegments)
    /\ Len(Matches(walk.root0, WalkSegments, 1)) = 3
    /\ Len(walk.calls) = 2
    /\ walk.root # walk.root0

====
